---- MODULE Spec2Model ----
(***************************************************************************)
(* Model of the multi-room WebSocket chat server (src/server_test.py).     *)
(*                                                                         *)
(* Every connection is served by one coroutine, handle_client.  The        *)
(* coroutines share connected_clients, rooms, client_rooms and users and   *)
(* run on one event loop, so a coroutine runs without interruption from    *)
(* one await to the next.  One action of the model is one such segment of  *)
(* handle_client: it resumes at an await, runs the code up to and          *)
(* including the next send, and suspends there.  An exception raised in    *)
(* the try body reaches the finally block without an await in between, so  *)
(* the segment that raises also runs the start of the cleanup.             *)
(***************************************************************************)
EXTENDS FiniteSets, Integers, Sequences, TLC

\* ------------------------------------------------------------------ bounds
\* inbound frames the server handles in one run
MaxFrames == 4

\* inbound frames the server handles in one run with an administrator
MaxQuitFrames == 3
\* inbound frames the server handles in one run with the chat client program
MaxClientFrames == 3

\* the websockets of a run, in the order in which they connect
ConnOrder == <<"c1", "c2">>
Conn == {ConnOrder[i] : i \in 1..Len(ConnOrder)}
\* the room names the clients use besides "default"
RoomNames == {"x"}

\* ------------------------------------------------- values of the protocol
Default == "default"
\* a missing or empty "room" field: action.get("room") is None or ""
NoRoom == ""
RoomArgs == RoomNames \cup {Default, NoRoom}

\* users[websocket] = "User_" + timestamp
Placeholder == "User_"
Usernames == {"alice"}
\* a missing or empty username / newUsername field
NoName == ""
\* a username of white space only
Blank == " "
Messages == {"hi"}
\* a missing or empty "message" field
NoMsg == ""

VARIABLES
    connected_clients,  \* set of websockets
    rooms,              \* room name -> set of websockets
    client_rooms,       \* websocket -> set of room names
    users,              \* websocket -> username
    transport,          \* websocket -> state of its connection
    handler,            \* websocket -> where its handle_client coroutine stands
    step,               \* the segment that ran last and the event it delivered
    frames,             \* inbound frames handled so far
    server,             \* the listening server and the cli coroutine
    client              \* one chat client program (src/client-test.py)

vars == <<connected_clients, rooms, client_rooms, users, transport, handler, step,
          frames, server, client>>

\* ------------------------------------------------------------ dictionaries
DictSet(d, k, v) == [x \in (DOMAIN d) \cup {k} |-> IF x = k THEN v ELSE d[x]]
DictPop(d, k) == [x \in (DOMAIN d) \ {k} |-> d[x]]
\* client_rooms.get(websocket, set())
DictGet(d, k) == IF k \in DOMAIN d THEN d[k] ELSE {}

\* ------------------------------------------------------------------ events
NoEv ==
    [to |-> "", action |-> "none", room |-> "", reason |-> "", rooms |-> {},
     from |-> "", message |-> ""]

\* a listing that leaves out the rooms without members
get_rooms_with_counts_NonEmpty(R) ==
    {<<r, Cardinality(R[r])>> : r \in {q \in DOMAIN R : R[q] # {}}}
\* get_rooms_with_counts(): room name -> len(members), as a set of pairs
get_rooms_with_counts(R) == {<<r, Cardinality(R[r])>> : r \in DOMAIN R}

RoomsListEv(t, R) ==
    [NoEv EXCEPT !.to = t, !.action = "roomsList", !.rooms = get_rooms_with_counts(R)]
JoinedEv(t, room) == [NoEv EXCEPT !.to = t, !.action = "joined", !.room = room]
LeftEv(t, room) == [NoEv EXCEPT !.to = t, !.action = "left", !.room = room]
ErrorEv(t, reason) == [NoEv EXCEPT !.to = t, !.action = "error", !.reason = reason]
MessageEv(t, from, room, msg) ==
    [NoEv EXCEPT !.to = t, !.action = "message", !.from = from, !.room = room,
                 !.message = msg]

\* websocket.send(...) raises ConnectionClosed unless the connection is open
CanSend(T, t) == T[t] = "open"
\* The peer of t has stopped reading and the write buffer of t is full
\* ("stalled"): "await websocket.send(...)" to t does not return.
Blocks(T, t) == T[t] = "stalled"
SendRaises(T, t) == ~CanSend(T, t) /\ ~Blocks(T, t)
\* The event a send of ev to t delivers.
Sent(T, t, ev) == IF CanSend(T, t) THEN ev ELSE NoEv

\* ---------------------------------------------------------------- handlers
\* A handler: where it stands (pc), the action it handles (op, room), its
\* iterator (snap, seen), the room set object a message loop iterates (live,
\* obj), the message it broadcasts (from, msg), and whether it waits in a send
\* that does not return (stuck).  Two fields record the order of concurrent
\* message broadcasts to one room: later, the handlers that started such a
\* broadcast after this one did, and over, the members one of those has sent
\* its message to before this one has.
Idle(pc) ==
    [pc |-> pc, op |-> "", room |-> "", snap |-> {}, seen |-> {}, live |-> TRUE,
     obj |-> {}, from |-> "", msg |-> "", stuck |-> FALSE, later |-> {}, over |-> {}]

\* The segment that ran last: whose coroutine (by), how it started (seg:
\* connect, recv, resume, eof, close), the inbound action it belongs to (op)
\* with its room argument (arg), the exception it raised ("" if none) and
\* the event it delivered (NoEv if none).
Step(c, seg, op, arg, exc, ev) ==
    [by |-> c, seg |-> seg, op |-> op, arg |-> arg, exc |-> exc, ev |-> ev]

\* The server and its cli: ws.serve(...) listens and cli waits for a command
\* ("serving"); cli has taken quit / exit and closes the clients of its list,
\* todo being those not yet closed ("closing"); server.close() was called
\* ("closed"); main has returned ("exited").  The field sound records whether,
\* when quit was taken, every registered connection was served by a handler in
\* its try body and the rooms held registered connections only.
Serving == [pc |-> "serving", todo |-> {}, sound |-> TRUE]

\* The chat client program before its user connects: ChatClientUI.__init__
\* and the globals of client-test.py.  ws is the websocket of its
\* network_loop ("" when there is none), connected the global of that name,
\* in_queue the events the receiver has put and poll_incoming has not
\* taken.  Of the events only joined and left are kept: poll_incoming reads
\* and writes joined_rooms for no other action.
NotStarted ==
    [ws |-> "", connected |-> FALSE, joined_rooms |-> {Default}, in_queue |-> <<>>]

\* receiver(): in_queue.put(obj) for every frame of the server; the global
\* connected = True once websockets.connect has returned.
Deliver(cl, st) ==
    IF cl.ws = "" THEN cl
    ELSE IF st.by = cl.ws /\ st.seg = "connect" THEN [cl EXCEPT !.connected = TRUE]
    ELSE IF st.ev.to = cl.ws /\ st.ev.action \in {"joined", "left"}
    THEN [cl EXCEPT !.in_queue = Append(@, [action |-> st.ev.action,
                                            room |-> st.ev.room])]
    ELSE cl

Init ==
    /\ server = Serving
    /\ client = NotStarted
    /\ connected_clients = {}
    /\ rooms = [r \in {Default} |-> {}]
    /\ client_rooms = [c \in {} |-> {}]
    /\ users = [c \in {} |-> ""]
    /\ transport = [c \in Conn |-> "idle"]
    /\ handler = [c \in Conn |-> Idle("new")]
    /\ step = Step("", "init", "", "", "", NoEv)
    /\ frames = 0

Commit(c, CC, R, CR, U, T, H, hc, st) ==
    /\ connected_clients' = CC
    /\ rooms' = R
    /\ client_rooms' = CR
    /\ users' = U
    /\ transport' = T
    /\ handler' = [H EXCEPT ![c] = hc]
    /\ step' = st
    /\ frames' = IF st.seg = "recv" THEN frames + 1 ELSE frames
    /\ server' = server
    /\ client' = Deliver(client, st)

\* --------------------------------------------------------- set iteration
\* "for client in s" over a live set: the iterator remembers the size of
\* the set when it was created and next() raises RuntimeError ("Set changed
\* size during iteration") when the size differs.  The order is the hash
\* order: any.  An element added since may or may not be visited.  The
\* iterator of a handler is its fields snap (the set when the iterator was
\* created) and seen (the elements next() has returned).
IterRaises(S, h) == Cardinality(S) # Cardinality(h.snap)
IterCands(S, h) == S \ h.seen
IterCanStop(S, h) == (S \ h.seen) \subseteq (S \ h.snap)

\* ----------------------------------------------------------------- finally
\* for r in list(rooms_set): try: rooms[r].remove(websocket) except: pass
RemoveFromRooms(c, R, CR) ==
    [r \in DOMAIN R |-> IF r \in DictGet(CR, c) THEN R[r] \ {c} ELSE R[r]]

\* The finally block up to its first await: the removal from the rooms,
\* client_rooms.pop, and the first send of the occupancy broadcast, whose
\* failure is swallowed.  The try body never changes connected_clients, and
\* it holds at least the websocket itself.
EnterFinally(c, R, CR, U, T, H, seg, op, arg, exc) ==
    LET R2 == RemoveFromRooms(c, R, CR)
        CR2 == DictPop(CR, c)
    IN  \E t \in connected_clients :
            Commit(c, connected_clients, R2, CR2, U, T, H,
                   [Idle("fin") EXCEPT !.snap = connected_clients, !.seen = {t},
                                       !.stuck = Blocks(T, t)],
                   Step(c, seg, op, arg, exc, Sent(T, t, RoomsListEv(t, R2))))

\* The handler returned or raised: the library closes the connection.
Closed(T, c) == [T EXCEPT ![c] = "closed"]

\* The finally block resumed in its occupancy broadcast.  The for statement
\* is outside the try that swallows the send failures: a RuntimeError of the
\* iterator leaves the handler before connected_clients.remove(websocket).
ResumeFinally(c) ==
    LET h == handler[c] IN
    /\ h.pc = "fin" /\ ~h.stuck
    /\ IF IterRaises(connected_clients, h)
       THEN Commit(c, connected_clients, rooms, client_rooms, users,
                   Closed(transport, c), handler, Idle("dead"),
                   Step(c, "resume", "finally", "", "RuntimeError", NoEv))
       ELSE \/ \E t \in IterCands(connected_clients, h) :
                 Commit(c, connected_clients, rooms, client_rooms, users, transport,
                        handler,
                        [h EXCEPT !.seen = @ \cup {t}, !.stuck = Blocks(transport, t)],
                        Step(c, "resume", "finally", "", "",
                             Sent(transport, t, RoomsListEv(t, rooms))))
            \/ /\ IterCanStop(connected_clients, h)
               /\ Commit(c, connected_clients \ {c}, rooms, client_rooms, users,
                         Closed(transport, c), handler, Idle("done"),
                         Step(c, "resume", "finally", "", "", NoEv))

\* ------------------------------------------------------------ registration
\* handle_client up to "async for": register, default username, auto-join
\* "default", and the initial roomsList to the new client.
Register(c, R) == [R EXCEPT ![Default] = @ \cup {c}]

\* The server accepts connections until server.close().
Listening == server.pc \in {"serving", "closing"}

Connect(c) ==
    /\ Listening
    /\ transport[c] = "idle"
    /\ \A i, j \in 1..Len(ConnOrder) :
          i < j /\ ConnOrder[j] = c => transport[ConnOrder[i]] # "idle"
    /\ LET R == Register(c, rooms)
           T == [transport EXCEPT ![c] = "open"]
       IN  Commit(c, connected_clients \cup {c}, R,
                  DictSet(client_rooms, c, {Default}),
                  DictSet(users, c, Placeholder), T, handler, Idle("recv"),
                  Step(c, "connect", "", "", "", RoomsListEv(c, R)))

\* The client goes away (or the network does).  A frame that arrived before
\* the close may still wait in the connection's queue ("draining"): the handler
\* receives it although the connection no longer accepts sends.
ClientClose(c) ==
    /\ transport[c] = "open"
    /\ \E t \in {"closed", "draining"} :
          /\ transport' = [transport EXCEPT ![c] = t]
          /\ step' = Step(c, "close", "", "", "", NoEv)
    /\ UNCHANGED <<connected_clients, rooms, client_rooms, users, handler, frames,
                   server, client>>

\* The peer stops reading and sends nothing more; the connection stays open.
ClientStall(c) ==
    /\ transport[c] = "open"
    /\ transport' = [transport EXCEPT ![c] = "stalled"]
    /\ step' = Step(c, "stall", "", "", "", NoEv)
    /\ UNCHANGED <<connected_clients, rooms, client_rooms, users, handler, frames,
                   server, client>>

\* "async for raw in websocket" ends: the connection is closed and no frame
\* is left.
EndOfStream(c) ==
    /\ handler[c].pc = "recv"
    /\ transport[c] = "closed"
    /\ EnterFinally(c, rooms, client_rooms, users, transport, handler,
                    "eof", "", "", "")

\* ---------------------------------------------------------------- dispatch
\* The handler receives a frame: it waits in "async for" and a frame is there.
CanRecv(c) ==
    /\ handler[c].pc = "recv"
    /\ transport[c] \in {"open", "draining"}
    /\ frames < MaxFrames
\* The connection's state while the frame is handled.
AfterRecv(c) ==
    [transport EXCEPT ![c] = IF @ = "draining" THEN "closed" ELSE @]

\* await sendjson(websocket, ...) to the requester, then on with hc.
Reply(c, R, CR, T, hc, op, arg, ev) ==
    IF CanSend(T, c)
    THEN Commit(c, connected_clients, R, CR, users, T, handler, hc,
                Step(c, "recv", op, arg, "", ev))
    ELSE EnterFinally(c, R, CR, users, T, handler, "recv", op, arg, "ConnectionClosed")

\* A segment without a send that returns to "async for".
Skip(c, U, T, op, arg) ==
    Commit(c, connected_clients, rooms, client_rooms, U, T, handler, Idle("recv"),
           Step(c, "recv", op, arg, "", NoEv))

\* for client in connected_clients: await sendjson(client, roomsList): one
\* next() of the iterator in h and the send to the client it returns.
BroadcastNext(c, R, T, H, h, seg) ==
    IF IterRaises(connected_clients, h)
    THEN EnterFinally(c, R, client_rooms, users, T, H, seg, h.op, h.room, "RuntimeError")
    ELSE \/ \E t \in IterCands(connected_clients, h) :
              IF SendRaises(T, t)
              THEN EnterFinally(c, R, client_rooms, users, T, H, seg, h.op, h.room,
                                "ConnectionClosed")
              ELSE Commit(c, connected_clients, R, client_rooms, users, T, H,
                          [h EXCEPT !.pc = "bcast", !.seen = @ \cup {t},
                                    !.stuck = Blocks(T, t)],
                          Step(c, seg, h.op, h.room, "", Sent(T, t, RoomsListEv(t, R))))
         \/ /\ IterCanStop(connected_clients, h)
            /\ Commit(c, connected_clients, R, client_rooms, users, T, H, Idle("recv"),
                      Step(c, seg, h.op, h.room, "", NoEv))

\* iter(connected_clients)
NewBroadcast(h) ==
    [h EXCEPT !.pc = "bcast", !.snap = connected_clients, !.seen = {}]

\* ------------------------------------------------------------- createRoom
CreateRoomGuard_NoExistsCheck(room, R) == room # NoRoom
\* if room and room not in rooms
CreateRoomGuard(room, R) == room # NoRoom /\ room \notin DOMAIN R

RecvCreateRoom(c, room) ==
    /\ CanRecv(c)
    /\ IF CreateRoomGuard(room, rooms)
       THEN BroadcastNext(c, DictSet(rooms, room, {}), AfterRecv(c), handler,
                          NewBroadcast([Idle("bcast") EXCEPT !.op = "createRoom",
                                                             !.room = room]),
                          "recv")
       ELSE Skip(c, users, AfterRecv(c), "createRoom", room)

\* --------------------------------------------------------------- joinRoom
\* joinRoom that replaces the member set by the joiner
JoinRooms_Replace(c, room, R) == [R EXCEPT ![room] = {c}]
\* joinRoom that moves the joiner: it is taken out of every other room
JoinRooms_Move(c, room, R) ==
    [r \in DOMAIN R |-> IF r = room THEN R[r] \cup {c} ELSE R[r] \ {c}]
\* rooms[room].add(websocket); client_rooms.setdefault(websocket, set()).add(room)
JoinRooms(c, room, R) == [R EXCEPT ![room] = @ \cup {c}]
JoinClientRooms(c, room, CR) == DictSet(CR, c, DictGet(CR, c) \cup {room})

JoinRoomMissing_Never(room, R) == FALSE
\* if room not in rooms: error, continue
JoinRoomMissing(room, R) == room \notin DOMAIN R

RecvJoinRoom(c, room) ==
    /\ CanRecv(c)
    /\ IF JoinRoomMissing(room, rooms)
       THEN Reply(c, rooms, client_rooms, AfterRecv(c), Idle("recv"), "joinRoom", room,
                  [ErrorEv(c, "") EXCEPT !.message = "does not exist"])
       ELSE Reply(c, JoinRooms(c, room, rooms), JoinClientRooms(c, room, client_rooms),
                  AfterRecv(c),
                  [Idle("bcastStart") EXCEPT !.op = "joinRoom", !.room = room],
                  "joinRoom", room, JoinedEv(c, room))

\* -------------------------------------------------------------- leaveRoom
\* if room in rooms and websocket in rooms[room]: rooms[room].remove(websocket)
LeaveRooms(c, room, R) ==
    IF room \in DOMAIN R /\ c \in R[room] THEN [R EXCEPT ![room] = @ \ {c}] ELSE R
\* ... client_rooms.get(websocket, set()).discard(room) / .add("default")
LeaveClientRooms(c, room, R, CR) ==
    IF room \in DOMAIN R /\ c \in R[room] /\ c \in DOMAIN CR
    THEN [CR EXCEPT ![c] = (@ \ {room}) \cup {Default}]
    ELSE CR
LeaveIsDefault_NoGuard(room) == FALSE
\* if room == "default": error cannot_leave_default
LeaveIsDefault(room) == room = Default

RecvLeaveRoom(c, room) ==
    /\ CanRecv(c)
    /\ IF room = NoRoom
       THEN Reply(c, rooms, client_rooms, AfterRecv(c), Idle("recv"), "leaveRoom", room,
                  ErrorEv(c, "no_room_specified"))
       ELSE IF LeaveIsDefault(room)
       THEN Reply(c, rooms, client_rooms, AfterRecv(c), Idle("recv"), "leaveRoom", room,
                  ErrorEv(c, "cannot_leave_default"))
       ELSE Reply(c, LeaveRooms(c, room, rooms),
                  LeaveClientRooms(c, room, rooms, client_rooms), AfterRecv(c),
                  [Idle("bcastStart") EXCEPT !.op = "leaveRoom", !.room = room],
                  "leaveRoom", room, LeftEv(c, room))

\* joinRoom and leaveRoom resumed after their joined / left event: the
\* occupancy broadcast starts.
ResumeBroadcastStart(c) ==
    /\ handler[c].pc = "bcastStart" /\ ~handler[c].stuck
    /\ BroadcastNext(c, rooms, transport, handler, NewBroadcast(handler[c]), "resume")

\* An occupancy broadcast of the try body resumed.
ResumeBroadcast(c) ==
    /\ handler[c].pc = "bcast" /\ ~handler[c].stuck
    /\ BroadcastNext(c, rooms, transport, handler, handler[c], "resume")

\* ------------------------------------------------------------- deleteRoom
DeleteIsDefault_NoGuard(room) == FALSE
\* if room == "default": error cannot_delete_default
DeleteIsDefault(room) == room = Default

\* rooms["default"].add(client)
MigrateRooms(m, R) == [R EXCEPT ![Default] = @ \cup {m}]
\* client_rooms.get(client, set()).discard(room) / .add("default")
MigrateClientRooms(m, room, CR) ==
    IF m \in DOMAIN CR THEN [CR EXCEPT ![m] = (@ \ {room}) \cup {Default}] ELSE CR

\* del rooms[room] leaves the set object to the sendMessage loops that
\* iterate it: it no longer changes.
Orphan(room, H) ==
    [d \in DOMAIN H |->
        IF H[d].pc = "msg" /\ H[d].room = room /\ H[d].live
        THEN [H[d] EXCEPT !.live = FALSE, !.obj = rooms[room]]
        ELSE H[d]]

\* for client in list(rooms[room]): one client of the list (h.snap) migrated
\* and notified; after the last one, del rooms[room] and the first send of
\* the occupancy broadcast.
DeleteNext(c, T, h, seg) ==
    IF h.snap \ h.seen = {}
    THEN IF h.room \notin DOMAIN rooms
         THEN EnterFinally(c, rooms, client_rooms, users, T, handler, seg, h.op, h.room,
                           "KeyError")
         ELSE BroadcastNext(c, DictPop(rooms, h.room), T, Orphan(h.room, handler),
                            NewBroadcast(h), seg)
    ELSE \E m \in h.snap \ h.seen :
            LET R == MigrateRooms(m, rooms)
                CR == MigrateClientRooms(m, h.room, client_rooms)
            IN  IF SendRaises(T, m)
                THEN EnterFinally(c, R, CR, users, T, handler, seg, h.op, h.room,
                                  "ConnectionClosed")
                ELSE Commit(c, connected_clients, R, CR, users, T, handler,
                            [h EXCEPT !.seen = @ \cup {m}, !.stuck = Blocks(T, m)],
                            Step(c, seg, h.op, h.room, "", Sent(T, m, LeftEv(m, h.room))))

RecvDeleteRoom(c, room) ==
    /\ CanRecv(c)
    /\ IF DeleteIsDefault(room)
       THEN Reply(c, rooms, client_rooms, AfterRecv(c), Idle("recv"), "deleteRoom", room,
                  ErrorEv(c, "cannot_delete_default"))
       ELSE IF room # NoRoom /\ room \in DOMAIN rooms
       THEN DeleteNext(c, AfterRecv(c),
                       [Idle("del") EXCEPT !.op = "deleteRoom", !.room = room,
                                           !.snap = rooms[room]],
                       "recv")
       ELSE Reply(c, rooms, client_rooms, AfterRecv(c), Idle("recv"), "deleteRoom", room,
                  ErrorEv(c, "room_not_found"))

ResumeDelete(c) ==
    /\ handler[c].pc = "del" /\ ~handler[c].stuck
    /\ DeleteNext(c, transport, handler[c], "resume")

\* ------------------------------------------------------------ sendMessage
\* The set object "for client in rooms[room]" iterates.
RoomObject(h) == IF h.live THEN rooms[h.room] ELSE h.obj

\* The handlers suspended in a message loop over the room set that the loop
\* of c, which starts now, iterates: c started later than they did.
Started(c, room, H) ==
    [d \in DOMAIN H |->
        IF d # c /\ H[d].pc = "msg" /\ H[d].room = room /\ H[d].live
        THEN [H[d] EXCEPT !.later = @ \cup {c}]
        ELSE H[d]]
\* The loop of c sends to t: t has the message of c before that of each
\* loop that started earlier and has not sent to t.  (Two iterators of one
\* set return its elements in the same order: a loop that is ahead of
\* another has sent to every member the other has sent to.)
Overtaken(c, t, h, H) ==
    [d \in DOMAIN H |->
        IF d # c /\ H[d].pc = "msg" /\ H[d].room = h.room /\ c \in H[d].later
                /\ t \notin H[d].seen /\ H[d].seen \subseteq h.seen \cup {t}
        THEN [H[d] EXCEPT !.over = @ \cup {t}]
        ELSE H[d]]

\* for client in rooms[room]: await client.send(...): one next() and send.
MessageNext(c, T, H, h, seg) ==
    IF IterRaises(RoomObject(h), h)
    THEN EnterFinally(c, rooms, client_rooms, users, T, H, seg, h.op, h.room,
                      "RuntimeError")
    ELSE \/ \E t \in IterCands(RoomObject(h), h) :
              IF SendRaises(T, t)
              THEN EnterFinally(c, rooms, client_rooms, users, T, H, seg, h.op,
                                h.room, "ConnectionClosed")
              ELSE Commit(c, connected_clients, rooms, client_rooms, users, T,
                          IF CanSend(T, t) THEN Overtaken(c, t, h, H) ELSE H,
                          [h EXCEPT !.seen = @ \cup {t}, !.stuck = Blocks(T, t)],
                          Step(c, seg, h.op, h.room, "",
                               Sent(T, t, MessageEv(t, h.from, h.room, h.msg))))
         \/ /\ IterCanStop(RoomObject(h), h)
            /\ Commit(c, connected_clients, rooms, client_rooms, users, T, H,
                      Idle("recv"), Step(c, seg, h.op, h.room, "", NoEv))

\* a sender that is always shown under the generated name
usernameOf_Placeholder(c) == Placeholder
\* users.get(websocket, "Unknown")
usernameOf(c) == IF c \in DOMAIN users THEN users[c] ELSE "Unknown"

RecvSendMessage(c, room, msg) ==
    /\ CanRecv(c)
    /\ IF msg = NoMsg \/ room = NoRoom
       THEN Skip(c, users, AfterRecv(c), "sendMessage", room)
       ELSE IF room \notin DOMAIN rooms
       THEN Reply(c, rooms, client_rooms, AfterRecv(c), Idle("recv"), "sendMessage",
                  room, ErrorEv(c, "room_not_found"))
       ELSE MessageNext(c, AfterRecv(c), Started(c, room, handler),
                        [Idle("msg") EXCEPT !.op = "sendMessage", !.room = room,
                                            !.snap = rooms[room],
                                            !.from = usernameOf(c), !.msg = msg],
                        "recv")

ResumeMessage(c) ==
    /\ handler[c].pc = "msg" /\ ~handler[c].stuck
    /\ MessageNext(c, transport, handler, handler[c], "resume")

\* ------------------------------------------------- identify, rename, others
\* a username that is stored without the test for an empty name
setUsername_Always(c, name) == [users EXCEPT ![c] = name]
\* if username: users[websocket] = username
setUsername(c, name) == IF name # NoName THEN [users EXCEPT ![c] = name] ELSE users

RecvIdentify(c, name) ==
    /\ CanRecv(c)
    /\ Skip(c, setUsername(c, name), AfterRecv(c), "identify", "")

RecvRename(c, name) ==
    /\ CanRecv(c)
    /\ Skip(c, setUsername(c, name), AfterRecv(c), "rename", "")

RecvRoomsList(c) ==
    /\ CanRecv(c)
    /\ Reply(c, rooms, client_rooms, AfterRecv(c), Idle("recv"), "roomsList", "",
             RoomsListEv(c, rooms))

\* an unknown action that is answered with an error event
RecvUnknown_Error(c) ==
    /\ CanRecv(c)
    /\ Reply(c, rooms, client_rooms, AfterRecv(c), Idle("recv"), "unknown", "",
             ErrorEv(c, "unknown_action"))
\* case _: logged, nothing else
RecvUnknown(c) ==
    /\ CanRecv(c)
    /\ Skip(c, users, AfterRecv(c), "unknown", "")

\* json.loads(raw) raises JSONDecodeError: except Exception, then finally
RecvInvalidJson(c) ==
    /\ CanRecv(c)
    /\ EnterFinally(c, rooms, client_rooms, users, AfterRecv(c), handler,
                    "recv", "invalid_json", "", "JSONDecodeError")

\* ------------------------------------------------------------ the program
Next ==
    \E c \in Conn :
        \/ Connect(c)
        \/ ClientClose(c)
        \/ EndOfStream(c)
        \/ \E room \in RoomArgs : RecvCreateRoom(c, room)
        \/ \E room \in RoomArgs : RecvJoinRoom(c, room)
        \/ \E room \in RoomArgs : RecvLeaveRoom(c, room)
        \/ \E room \in RoomArgs : RecvDeleteRoom(c, room)
        \/ \E room \in RoomArgs, msg \in Messages \cup {NoMsg} :
               RecvSendMessage(c, room, msg)
        \/ \E name \in Usernames \cup {NoName} : RecvIdentify(c, name)
        \/ \E name \in Usernames \cup {NoName} : RecvRename(c, name)
        \/ RecvRoomsList(c)
        \/ RecvUnknown(c)
        \/ RecvInvalidJson(c)
        \/ ResumeBroadcastStart(c)
        \/ ResumeBroadcast(c)
        \/ ResumeDelete(c)
        \/ ResumeMessage(c)
        \/ ResumeFinally(c)

Spec == Init /\ [][Next]_vars

\* The program with peers that may stop reading: a send to such a peer does
\* not return.
NextStall ==
    \/ Next
    \/ \E c \in Conn : ClientStall(c)

SpecStall == Init /\ [][NextStall]_vars

\* The program with clients that also send names of white space only.
NextBlank ==
    \/ Next
    \/ \E c \in Conn : RecvIdentify(c, Blank)
    \/ \E c \in Conn : RecvRename(c, Blank)

SpecBlank == Init /\ [][NextBlank]_vars

\* ------------------------------------------------------------------- cli
\* client.close() / server.close() on one connection: an open connection is
\* closed; a connection its peer has closed already stays as it is.
CloseTransport(T, S) == [c \in DOMAIN T |-> IF c \in S /\ T[c] = "open" THEN "closed" ELSE T[c]]

\* for client in list(connected_clients): await client.close(), then
\* server.close(): one segment of cli.  It closes the next client of its list
\* and waits for that close, or, the list done, calls server.close(), which
\* stops the listening and closes every connection that is still open.
CloseNext(srv, todo) ==
    /\ IF todo = {}
       THEN /\ server' = [srv EXCEPT !.pc = "closed", !.todo = {}]
            /\ transport' = CloseTransport(transport, Conn)
       ELSE \E c \in todo :
               /\ server' = [srv EXCEPT !.pc = "closing", !.todo = todo \ {c}]
               /\ transport' = CloseTransport(transport, {c})
    /\ step' = Step("cli", "quit", "", "", "", NoEv)
    /\ UNCHANGED <<connected_clients, rooms, client_rooms, users, handler, frames,
                   client>>

\* Every registered connection is served by a handler in its try body, and
\* the rooms hold registered connections only.
Sound ==
    /\ \A c \in connected_clients :
          handler[c].pc \in {"recv", "bcastStart", "bcast", "del", "msg"}
    /\ \A r \in DOMAIN rooms : rooms[r] \subseteq connected_clients

\* case "quit" | "exit"
Quit ==
    /\ server.pc = "serving"
    /\ CloseNext([server EXCEPT !.sound = Sound], connected_clients)

QuitResume ==
    /\ server.pc = "closing"
    /\ CloseNext(server, server.todo)

\* await server.wait_closed() returns when every handler has ended; cli
\* breaks, the gather of main returns and the process finishes.
HandlerEnded(c) == handler[c].pc \in {"new", "done", "dead"}

ServerExit ==
    /\ server.pc = "closed"
    /\ \A c \in Conn : HandlerEnded(c)
    /\ server' = [server EXCEPT !.pc = "exited"]
    /\ step' = Step("cli", "exit", "", "", "", NoEv)
    /\ UNCHANGED <<connected_clients, rooms, client_rooms, users, transport, handler,
                   frames, client>>

\* The program with an administrator who may type quit.
NextQuit ==
    \/ Next /\ frames' <= MaxQuitFrames
    \/ Quit
    \/ QuitResume
    \/ ServerExit

SpecQuit == Init /\ [][NextQuit]_vars

\* ------------------------------------------------- server.py (one room each)
\* The older server, src/server.py: the same globals, but client_rooms maps a
\* websocket to the one room it is in, and handle_client keeps that room in
\* its local current_room as well.  Its occupancy lists carry the room names
\* only, joinRoom and leaveRoom do not broadcast, and its finally block has no
\* await.

\* A handler of server.py: the fields of Idle(pc) and the local current_room.
Here(pc, cur) ==
    [f \in (DOMAIN Idle(pc)) \cup {"current_room"} |->
        IF f = "current_room" THEN cur ELSE Idle(pc)[f]]

\* {"action": "roomsList", "rooms": list(rooms.keys())}
RoomKeysEv(t, R) ==
    [NoEv EXCEPT !.to = t, !.action = "roomsList", !.rooms = DOMAIN R]

\* The finally block of server.py, entered in the segment that ends the try
\* body: rooms[client_rooms[websocket]].remove(websocket) raises KeyError when
\* the websocket is not in that set, and then neither client_rooms.pop nor
\* connected_clients.remove runs.
SingleFinally(c, R, CR, U, T, H, seg, op, arg, exc) ==
    LET cur == H[c].current_room IN
    IF c \in DOMAIN CR /\ (CR[c] \notin DOMAIN R \/ c \notin R[CR[c]])
    THEN Commit(c, connected_clients, R, CR, U, Closed(T, c), H, Here("dead", cur),
                Step(c, seg, op, arg, exc, NoEv))
    ELSE Commit(c, connected_clients \ {c},
                IF c \in DOMAIN CR THEN [R EXCEPT ![CR[c]] = @ \ {c}] ELSE R,
                DictPop(CR, c), U, Closed(T, c), H, Here("done", cur),
                Step(c, seg, op, arg, exc, NoEv))

\* handle_client of server.py up to "async for"
SingleConnect(c) ==
    /\ Listening
    /\ transport[c] = "idle"
    /\ \A i, j \in 1..Len(ConnOrder) :
          i < j /\ ConnOrder[j] = c => transport[ConnOrder[i]] # "idle"
    /\ LET R == Register(c, rooms) IN
       Commit(c, connected_clients \cup {c}, R, DictSet(client_rooms, c, Default),
              DictSet(users, c, Placeholder), [transport EXCEPT ![c] = "open"],
              handler, Here("recv", Default),
              Step(c, "connect", "", "", "", RoomKeysEv(c, R)))

SingleEndOfStream(c) ==
    /\ handler[c].pc = "recv"
    /\ transport[c] = "closed"
    /\ SingleFinally(c, rooms, client_rooms, users, transport, handler, "eof", "", "", "")

\* await sendjson(websocket, ...) to the requester, then on with hc
SingleReply(c, R, CR, T, hc, op, arg, ev) ==
    IF CanSend(T, c)
    THEN Commit(c, connected_clients, R, CR, users, T, handler, hc,
                Step(c, "recv", op, arg, "", ev))
    ELSE SingleFinally(c, R, CR, users, T, handler, "recv", op, arg, "ConnectionClosed")

SingleSkip(c, U, T, op) ==
    Commit(c, connected_clients, rooms, client_rooms, U, T, handler,
           Here("recv", handler[c].current_room), Step(c, "recv", op, "", "", NoEv))

\* for client in connected_clients: await sendjson(client, roomsList)
SingleBroadcastNext(c, R, CR, T, H, h, seg) ==
    IF IterRaises(connected_clients, h)
    THEN SingleFinally(c, R, CR, users, T, H, seg, h.op, h.room, "RuntimeError")
    ELSE \/ \E t \in IterCands(connected_clients, h) :
              IF SendRaises(T, t)
              THEN SingleFinally(c, R, CR, users, T, H, seg, h.op, h.room,
                                 "ConnectionClosed")
              ELSE Commit(c, connected_clients, R, CR, users, T, H,
                          [h EXCEPT !.pc = "bcast", !.seen = @ \cup {t}],
                          Step(c, seg, h.op, h.room, "", RoomKeysEv(t, R)))
         \/ /\ IterCanStop(connected_clients, h)
            /\ Commit(c, connected_clients, R, CR, users, T, H,
                      Here("recv", h.current_room), Step(c, seg, h.op, h.room, "", NoEv))

SingleRecvCreateRoom(c, room) ==
    /\ CanRecv(c)
    /\ IF CreateRoomGuard(room, rooms)
       THEN SingleBroadcastNext(c, DictSet(rooms, room, {}), client_rooms, AfterRecv(c),
                                handler,
                                NewBroadcast([Here("bcast", handler[c].current_room)
                                                EXCEPT !.op = "createRoom", !.room = room]),
                                "recv")
       ELSE Commit(c, connected_clients, rooms, client_rooms, users, AfterRecv(c),
                   handler, Here("recv", handler[c].current_room),
                   Step(c, "recv", "createRoom", room, "", NoEv))

\* rooms[current_room].remove(websocket) raises KeyError when current_room is
\* no key of rooms or the websocket is not in the set
RemoveRaises(c, cur, R) == cur \notin DOMAIN R \/ c \notin R[cur]
\* rooms[current_room].remove(websocket); rooms[room].add(websocket)
MoveRooms(c, cur, room, R) ==
    [r \in DOMAIN R |->
        IF r = room THEN R[r] \cup {c} ELSE IF r = cur THEN R[r] \ {c} ELSE R[r]]

SingleRecvJoinRoom(c, room) ==
    LET cur == handler[c].current_room IN
    /\ CanRecv(c)
    /\ IF room \notin DOMAIN rooms
       THEN SingleReply(c, rooms, client_rooms, AfterRecv(c), Here("recv", cur),
                        "joinRoom", room,
                        [ErrorEv(c, "") EXCEPT !.message = "does not exist"])
       ELSE IF RemoveRaises(c, cur, rooms)
       THEN SingleFinally(c, rooms, client_rooms, users, AfterRecv(c), handler,
                          "recv", "joinRoom", room, "KeyError")
       ELSE SingleReply(c, MoveRooms(c, cur, room, rooms), DictSet(client_rooms, c, room),
                        AfterRecv(c), Here("recv", room), "joinRoom", room,
                        JoinedEv(c, room))

\* "payload": {"room": current_room}, read after current_room = "default"
LeftRoom(cur) == Default

SingleRecvLeaveRoom(c) ==
    LET cur == handler[c].current_room IN
    /\ CanRecv(c)
    /\ IF cur = Default
       THEN SingleReply(c, rooms, client_rooms, AfterRecv(c), Here("recv", cur),
                        "leaveRoom", "", LeftEv(c, cur))
       ELSE IF RemoveRaises(c, cur, rooms)
       THEN SingleFinally(c, rooms, client_rooms, users, AfterRecv(c), handler,
                          "recv", "leaveRoom", "", "KeyError")
       ELSE SingleReply(c, MoveRooms(c, cur, Default, rooms),
                        DictSet(client_rooms, c, Default), AfterRecv(c),
                        Here("recv", Default), "leaveRoom", "",
                        LeftEv(c, LeftRoom(cur)))

\* for client in list(rooms[room]): rooms["default"].add(client);
\* client_rooms[client] = "default"; send left.  Then del rooms[room] and the
\* broadcast of the room names.
SingleDeleteNext(c, T, h, seg) ==
    IF h.snap \ h.seen = {}
    THEN IF h.room \notin DOMAIN rooms
         THEN SingleFinally(c, rooms, client_rooms, users, T, handler, seg, h.op,
                            h.room, "KeyError")
         ELSE SingleBroadcastNext(c, DictPop(rooms, h.room), client_rooms, T,
                                  Orphan(h.room, handler), NewBroadcast(h), seg)
    ELSE \E m \in h.snap \ h.seen :
            LET R == MigrateRooms(m, rooms)
                CR == DictSet(client_rooms, m, Default)
            IN  IF SendRaises(T, m)
                THEN SingleFinally(c, R, CR, users, T, handler, seg, h.op, h.room,
                                   "ConnectionClosed")
                ELSE Commit(c, connected_clients, R, CR, users, T, handler,
                            [h EXCEPT !.seen = @ \cup {m}],
                            Step(c, seg, h.op, h.room, "", LeftEv(m, h.room)))

SingleRecvDeleteRoom(c, room) ==
    LET cur == handler[c].current_room IN
    /\ CanRecv(c)
    /\ IF DeleteIsDefault(room)
       THEN SingleReply(c, rooms, client_rooms, AfterRecv(c), Here("recv", cur),
                        "deleteRoom", room, ErrorEv(c, "cannot_delete_default"))
       ELSE IF room # NoRoom /\ room \in DOMAIN rooms
       THEN SingleDeleteNext(c, AfterRecv(c),
                             [Here("del", cur) EXCEPT !.op = "deleteRoom", !.room = room,
                                                      !.snap = rooms[room]],
                             "recv")
       ELSE SingleReply(c, rooms, client_rooms, AfterRecv(c), Here("recv", cur),
                        "deleteRoom", room, ErrorEv(c, "room_not_found"))

\* for client in rooms[current_room]: await client.send(...)
SingleMessageNext(c, T, H, h, seg) ==
    IF IterRaises(RoomObject(h), h)
    THEN SingleFinally(c, rooms, client_rooms, users, T, H, seg, h.op, h.room,
                       "RuntimeError")
    ELSE \/ \E t \in IterCands(RoomObject(h), h) :
              IF SendRaises(T, t)
              THEN SingleFinally(c, rooms, client_rooms, users, T, H, seg, h.op,
                                 h.room, "ConnectionClosed")
              ELSE Commit(c, connected_clients, rooms, client_rooms, users, T, H,
                          [h EXCEPT !.seen = @ \cup {t}],
                          Step(c, seg, h.op, h.room, "",
                               MessageEv(t, h.from, h.room, h.msg)))
         \/ /\ IterCanStop(RoomObject(h), h)
            /\ Commit(c, connected_clients, rooms, client_rooms, users, T, H,
                      Here("recv", h.current_room), Step(c, seg, h.op, h.room, "", NoEv))

\* sendMessage of server.py goes to rooms[current_room]: KeyError when the
\* room was deleted
SingleRecvSendMessage(c, msg) ==
    LET cur == handler[c].current_room IN
    /\ CanRecv(c)
    /\ IF msg = NoMsg
       THEN SingleSkip(c, users, AfterRecv(c), "sendMessage")
       ELSE IF cur \notin DOMAIN rooms
       THEN SingleFinally(c, rooms, client_rooms, users, AfterRecv(c), handler,
                          "recv", "sendMessage", cur, "KeyError")
       ELSE SingleMessageNext(c, AfterRecv(c), handler,
                              [Here("msg", cur) EXCEPT !.op = "sendMessage",
                                                       !.room = cur, !.snap = rooms[cur],
                                                       !.from = usernameOf(c),
                                                       !.msg = msg],
                              "recv")

SingleRecvIdentify(c, name) ==
    /\ CanRecv(c)
    /\ SingleSkip(c, setUsername(c, name), AfterRecv(c), "identify")

SingleRecvRename(c, name) ==
    /\ CanRecv(c)
    /\ SingleSkip(c, setUsername(c, name), AfterRecv(c), "rename")

SingleRecvRoomsList(c) ==
    /\ CanRecv(c)
    /\ SingleReply(c, rooms, client_rooms, AfterRecv(c),
                   Here("recv", handler[c].current_room), "roomsList", "",
                   RoomKeysEv(c, rooms))

SingleRecvUnknown(c) ==
    /\ CanRecv(c)
    /\ SingleSkip(c, users, AfterRecv(c), "unknown")

SingleRecvInvalidJson(c) ==
    /\ CanRecv(c)
    /\ SingleFinally(c, rooms, client_rooms, users, AfterRecv(c), handler,
                     "recv", "invalid_json", "", "JSONDecodeError")

SingleResumeBroadcast(c) ==
    /\ handler[c].pc = "bcast"
    /\ SingleBroadcastNext(c, rooms, client_rooms, transport, handler, handler[c],
                           "resume")

SingleResumeDelete(c) ==
    /\ handler[c].pc = "del"
    /\ SingleDeleteNext(c, transport, handler[c], "resume")

SingleResumeMessage(c) ==
    /\ handler[c].pc = "msg"
    /\ SingleMessageNext(c, transport, handler, handler[c], "resume")

NextSingle ==
    \E c \in Conn :
        \/ SingleConnect(c)
        \/ ClientClose(c)
        \/ SingleEndOfStream(c)
        \/ \E room \in RoomArgs : SingleRecvCreateRoom(c, room)
        \/ \E room \in RoomArgs : SingleRecvJoinRoom(c, room)
        \/ SingleRecvLeaveRoom(c)
        \/ \E room \in RoomArgs : SingleRecvDeleteRoom(c, room)
        \/ \E msg \in Messages \cup {NoMsg} : SingleRecvSendMessage(c, msg)
        \/ \E name \in Usernames \cup {NoName} : SingleRecvIdentify(c, name)
        \/ \E name \in Usernames \cup {NoName} : SingleRecvRename(c, name)
        \/ SingleRecvRoomsList(c)
        \/ SingleRecvUnknown(c)
        \/ SingleRecvInvalidJson(c)
        \/ SingleResumeBroadcast(c)
        \/ SingleResumeDelete(c)
        \/ SingleResumeMessage(c)

\* server.py starts from the same state: no connection, the room "default".
SpecSingle == Init /\ [][NextSingle]_vars

\* ------------------------------------------- the client (client-test.py)
\* on_connect: start_network_thread, whose network_loop opens the next
\* websocket; joined_rooms, in_queue and the other fields of the ChatClientUI
\* stay as they are.
on_connect ==
    /\ ~client.connected
    /\ Listening
    /\ \E c \in Conn :
          /\ transport[c] = "idle"
          /\ \A i, j \in 1..Len(ConnOrder) :
                i < j /\ ConnOrder[j] = c => transport[ConnOrder[i]] # "idle"
          /\ client.ws # c
          /\ client' = [client EXCEPT !.ws = c]
    /\ step' = Step("client", "on_connect", "", "", "", NoEv)
    /\ UNCHANGED <<connected_clients, rooms, client_rooms, users, transport, handler,
                   frames, server>>

\* network_loop ends: ws.send raises ConnectionClosed on the closed
\* connection; finally: connected = False.
network_loop_ends ==
    /\ client.connected
    /\ transport[client.ws] = "closed"
    /\ client' = [client EXCEPT !.connected = FALSE]
    /\ step' = Step("client", "closed", "", "", "", NoEv)
    /\ UNCHANGED <<connected_clients, rooms, client_rooms, users, transport, handler,
                   frames, server>>

\* poll_incoming on one event: joined adds the room, left removes it
Process(J, ev) ==
    IF ev.action = "joined" THEN J \cup {ev.room} ELSE J \ {ev.room}

RECURSIVE ProcessAll(_, _)
ProcessAll(J, q) == IF q = <<>> THEN J ELSE ProcessAll(Process(J, Head(q)), Tail(q))

\* poll_incoming: while not in_queue.empty(): ...
poll_incoming ==
    /\ client.in_queue # <<>>
    /\ client' = [client EXCEPT !.joined_rooms = ProcessAll(@, client.in_queue),
                                !.in_queue = <<>>]
    /\ step' = Step("client", "poll", "", "", "", NoEv)
    /\ UNCHANGED <<connected_clients, rooms, client_rooms, users, transport, handler,
                   frames, server>>

\* The frames the client program sends over its websocket: the actions of its
\* buttons, each with a room name (create_room_prompt, join_selected_room,
\* leave_room, delete_room, send_message), rename, and the identify and
\* roomsList that follow a connect.  The client program is the first client
\* to connect; the second websocket is that of its reconnection or of another
\* client.
FromClient ==
    /\ (step'.seg = "connect" /\ step'.by = ConnOrder[1]) => client.ws = ConnOrder[1]
    /\ (step'.seg = "recv" /\ step'.by = client.ws) =>
          /\ step'.op \in {"createRoom", "joinRoom", "leaveRoom", "deleteRoom",
                           "sendMessage", "identify", "rename", "roomsList"}
          /\ step'.op \in {"createRoom", "joinRoom", "leaveRoom", "deleteRoom",
                           "sendMessage"} => step'.arg # NoRoom

\* The server with the chat client program among its clients.
NextClient ==
    \/ Next /\ frames' <= MaxClientFrames /\ FromClient
    \/ on_connect
    \/ network_loop_ends
    \/ poll_incoming

SpecClient == Init /\ [][NextClient]_vars

\* ------------------------------------------------------------ vocabulary
\* The handler of c is in its try body: registered, cleanup not started.
InSession(c) == handler[c].pc \in {"recv", "bcastStart", "bcast", "del", "msg"}
\* The handler of c has reached its finally block (or is past it).
InCleanup(c) == handler[c].pc \in {"fin", "done", "dead"}

\* This step is the segment in which the handler of c receives a frame with
\* the given action and room argument.
Handles(c, op, arg) ==
    /\ CanRecv(c)
    /\ step'.by = c /\ step'.seg = "recv" /\ step'.op = op /\ step'.arg = arg

\* ---------------------------------------------------------------------- C1
\* C1: every registered connection whose cleanup has not started is a member
\* of rooms["default"].
C1_DefaultMembership ==
    \A c \in connected_clients : InSession(c) => c \in rooms[Default]

\* deleteRoom of another connection has just migrated a member of a room, which
\* is in its session and in "default".
C1_Witness ==
    /\ step.op = "deleteRoom" /\ step.arg \in RoomNames
    /\ step.ev = LeftEv(step.ev.to, step.arg)
    /\ step.ev.to # step.by
    /\ InSession(step.ev.to)
    /\ step.ev.to \in rooms[Default]
    /\ client_rooms[step.ev.to] = {Default}

\* ---------------------------------------------------------------------- C2
\* The sendMessage of c to an existing room with a non-empty message ends in
\* this step: its loop is left, or its first send already raises.
MessageLoopEnds(c) == handler[c].pc = "msg" /\ handler'[c].pc # "msg"
MessageFirstSendRaises(c) ==
    /\ CanRecv(c)
    /\ step'.by = c /\ step'.seg = "recv" /\ step'.op = "sendMessage"
    /\ step'.arg \in DOMAIN rooms
    /\ step'.exc # ""

\* C2: a sendMessage to an existing room R delivers exactly one message
\* event to each member R had when the action was handled (here: to each
\* such member whose connection is open, the only ones a send can reach), and
\* none to a connection outside that member set; every event carries room R.
C2_EachMemberOnce ==
    [][\A c \in Conn :
          /\ MessageLoopEnds(c) =>
                \A m \in handler[c].snap :
                    transport[m] = "open" => m \in handler[c].seen
          /\ MessageFirstSendRaises(c) =>
                \A m \in rooms[step'.arg] : transport'[m] # "open"
          /\ (step'.by = c /\ step'.ev.action = "message") =>
                /\ step'.ev.to \in handler'[c].snap
                /\ step'.ev.room = handler'[c].room
      ]_vars

\* ---------------------------------------------------------------------- C3
\* The migration loop of deleteRoom of c is left in this step.
DeleteLoopEnds(c) == handler[c].pc = "del" /\ handler'[c].pc # "del"
\* deleteRoom of an existing room other than "default" whose first left event
\* cannot be sent.
DeleteFirstSendRaises(c) ==
    /\ CanRecv(c)
    /\ step'.by = c /\ step'.seg = "recv" /\ step'.op = "deleteRoom"
    /\ step'.arg \in (DOMAIN rooms) \ {Default}
    /\ step'.exc # ""

\* C3: once deleteRoom(R) of an existing room R other than "default" with
\* members M is handled, R is no key of rooms, every connection of M was sent
\* a left event, is a member of "default", and has R no longer in its
\* client_rooms.
C3_DeleteMigratesAll ==
    [][\A c \in Conn :
          /\ DeleteLoopEnds(c) =>
                /\ handler[c].room \notin DOMAIN rooms'
                /\ handler[c].seen = handler[c].snap
                /\ \A m \in handler[c].snap :
                      /\ m \in rooms'[Default]
                      /\ handler[c].room \notin DictGet(client_rooms', m)
          /\ DeleteFirstSendRaises(c) => step'.arg \notin DOMAIN rooms'
      ]_vars

\* ---------------------------------------------------------------------- C4
\* C4: when a connection disconnects (its handler finds the stream ended and
\* runs its cleanup), every room it was a member of has one member less and
\* the connection is in the member set of no room.
C4_AbsentAfterCleanup ==
    [][\A c \in Conn :
          (handler[c].pc = "recv" /\ step'.by = c /\ step'.seg = "eof") =>
             \A r \in DOMAIN rooms' :
                /\ c \notin rooms'[r]
                /\ c \in rooms[r] =>
                      Cardinality(rooms'[r]) = Cardinality(rooms[r]) - 1
      ]_vars

\* ---------------------------------------------------------------------- C5
\* A send of the message broadcast of c raises ConnectionClosed in this step.
MessageSendRaises(c) ==
    /\ step'.by = c /\ step'.op = "sendMessage" /\ step'.exc = "ConnectionClosed"
    /\ \/ handler[c].pc = "msg"
       \/ MessageFirstSendRaises(c)
\* The members the broadcast of c was to reach, and those it has reached.
MessageTargets(c) == IF handler[c].pc = "msg" THEN handler[c].snap ELSE rooms[step'.arg]
MessageReached(c) == IF handler[c].pc = "msg" THEN handler[c].seen ELSE {}

\* C5: a send of a message broadcast that fails for one member does not stop
\* the sends to the remaining members: the broadcast goes on (the handler
\* stays in its loop or finishes it) unless every other member with an open
\* connection already has the message.
C5_SendFailureIsolated ==
    [][\A c \in Conn :
          MessageSendRaises(c) =>
             \/ handler'[c].pc \in {"msg", "recv"}
             \/ \A m \in MessageTargets(c) :
                   transport'[m] = "open" => m \in MessageReached(c)
      ]_vars

\* ---------------------------------------------------------------------- C6
\* C6: the session of a connection (its try body) ends only when its own
\* connection is closed: neither a send to another connection that fails nor
\* a set that changed while the handler was suspended in a broadcast ends it.
C6_SessionEndsOnlyOnOwnClose ==
    [][\A c \in Conn :
          (/\ InSession(c)
           /\ ~InSession(c)'
           /\ step'.exc \in {"ConnectionClosed", "RuntimeError", "KeyError"})
          => transport'[c] # "open"
      ]_vars

\* ---------------------------------------------------------------------- C7
\* C7: a frame that is no JSON is answered with an error event, reason
\* invalid_json, to its sender (whose connection is open); rooms, memberships
\* and usernames stay as they are and the session stays open.
C7_InvalidJsonReported ==
    [][\A c \in Conn :
          (Handles(c, "invalid_json", "") /\ transport[c] = "open") =>
             /\ step'.ev = ErrorEv(c, "invalid_json")
             /\ InSession(c)'
             /\ UNCHANGED <<rooms, client_rooms, users, connected_clients>>
      ]_vars

\* ---------------------------------------------------------------------- C8
\* The answer to deleteRoom("default") and to leaveRoom("default").
DefaultRefused(c) ==
    \/ Handles(c, "deleteRoom", Default) /\ step'.ev = ErrorEv(c, "cannot_delete_default")
    \/ Handles(c, "leaveRoom", Default) /\ step'.ev = ErrorEv(c, "cannot_leave_default")
HandlesOnDefault(c) ==
    Handles(c, "deleteRoom", Default) \/ Handles(c, "leaveRoom", Default)

\* C8 as stated: in every reachable state deleteRoom("default") and
\* leaveRoom("default") send one error event to the requester, nothing to
\* anyone else, and change none of rooms, client_rooms, users,
\* connected_clients.
C8_DefaultRefusedAlways ==
    [][\A c \in Conn :
          HandlesOnDefault(c) =>
             /\ DefaultRefused(c)
             /\ UNCHANGED <<rooms, client_rooms, users, connected_clients>>
      ]_vars

\* C8 as amended: the same, for a requester whose connection is open when the
\* frame is handled.  (The segment delivers one event at most: the error event to
\* the requester is all it sends.)
C8_DefaultRefusedWhenOpen ==
    [][\A c \in Conn :
          (HandlesOnDefault(c) /\ transport[c] = "open") =>
             /\ DefaultRefused(c)
             /\ InSession(c)'
             /\ UNCHANGED <<rooms, client_rooms, users, connected_clients>>
      ]_vars

\* deleteRoom("default") was refused while another connection was a member
\* of "default" too.
C8_Witness ==
    /\ step.seg = "recv" /\ step.op = "deleteRoom" /\ step.arg = Default
    /\ step.ev = ErrorEv(step.by, "cannot_delete_default")
    /\ Cardinality(rooms[Default]) = 2
    /\ \E r \in RoomNames : r \in DOMAIN rooms /\ rooms[r] # {}

\* ---------------------------------------------------------------------- C9
\* C9: createRoom(X) for a room X that exists ("default" included) leaves the
\* room names and the members of X (and of every room) as they are.
C9_CreateRoomIdempotent ==
    [][\A c \in Conn : \A x \in RoomArgs :
          (Handles(c, "createRoom", x) /\ x \in DOMAIN rooms) =>
             /\ DOMAIN rooms' = DOMAIN rooms
             /\ rooms'[x] = rooms[x]
             /\ rooms' = rooms
      ]_vars

\* createRoom was handled for a room that existed and had a member.
C9_Witness ==
    /\ step.seg = "recv" /\ step.op = "createRoom" /\ step.arg \in RoomNames
    /\ handler[step.by].pc = "recv"
    /\ step.arg \in DOMAIN rooms
    /\ rooms[step.arg] # {}

\* --------------------------------------------------------------------- C10
\* The handler of a is suspended in the occupancy broadcast of its
\* createRoom(x).
InCreateBroadcast(a, x) ==
    handler[a].pc = "bcast" /\ handler[a].op = "createRoom" /\ handler[a].room = x

\* C10: when createRoom(x) of b is handled while the handler of a is suspended
\* in the occupancy broadcast of its own createRoom(x) (room x, which a made,
\* is there), room x stays the one room x with the members it has, the
\* session of b goes on, and the broadcast of a is left as it was: its
\* iterator, the set it iterates and the connections it can send to.
C10_ConcurrentCreateRoom ==
    [][\A a, b \in Conn : \A x \in RoomNames :
          (/\ a # b
           /\ InCreateBroadcast(a, x)
           /\ x \in DOMAIN rooms
           /\ Handles(b, "createRoom", x)) =>
             /\ x \in DOMAIN rooms'
             /\ rooms' = rooms
             /\ handler'[b].pc = "recv"
             /\ handler'[a] = handler[a]
             /\ connected_clients' = connected_clients
             /\ \A t \in Conn : CanSend(transport', t) = CanSend(transport, t)
      ]_vars

\* The second createRoom(x) was handled during the broadcast of the first,
\* after a connection had joined x; both connections are open and the
\* broadcast of the first can go on.
C10_Witness ==
    \E a \in Conn :
        /\ a # step.by
        /\ step.seg = "recv" /\ step.op = "createRoom" /\ step.arg \in RoomNames
        /\ InCreateBroadcast(a, step.arg)
        /\ step.arg \in DOMAIN rooms
        /\ rooms[step.arg] # {}
        /\ handler[step.by].pc = "recv"
        /\ handler[a].snap = connected_clients
        /\ connected_clients = Conn
        /\ \A t \in Conn : transport[t] = "open"

\* --------------------------------------------------------------------- C11
\* C11: a joinRoom(R) of a connected client for an existing room R is answered
\* with a joined event, never an error, and makes the occupancy reported for
\* R the number of distinct connections that have joined it: one more than
\* before when the client was no member, the same when it already was one.
C11_JoinCountsOnce ==
    [][\A c \in Conn : \A x \in RoomArgs :
          (Handles(c, "joinRoom", x) /\ x \in DOMAIN rooms /\ transport[c] = "open") =>
             /\ step'.ev = JoinedEv(c, x)
             /\ rooms'[x] = rooms[x] \cup {c}
             /\ <<x, Cardinality(rooms[x]) + (IF c \in rooms[x] THEN 0 ELSE 1)>>
                   \in get_rooms_with_counts(rooms')
      ]_vars

\* The second connection has just joined a room the first one had joined: the
\* room has two members, both in their session.
C11_Witness ==
    /\ step.seg = "recv" /\ step.op = "joinRoom" /\ step.arg \in RoomNames
    /\ step.ev = JoinedEv(step.by, step.arg)
    /\ rooms[step.arg] = Conn
    /\ <<step.arg, 2>> \in get_rooms_with_counts(rooms)
    /\ \A c \in Conn : InSession(c) /\ transport[c] = "open"

\* --------------------------------------------------------------------- C12
\* C12: a successful joinRoom(R) of c adds c to the members of R and R to
\* client_rooms[c] and changes no other membership: the other rooms keep
\* their members (c among them), and no other connection's rooms change.
C12_JoinFrame ==
    [][\A c \in Conn : \A x \in RoomArgs :
          (Handles(c, "joinRoom", x) /\ x \in DOMAIN rooms /\ transport[c] = "open") =>
             /\ DOMAIN rooms' = DOMAIN rooms
             /\ c \in rooms'[x]
             /\ rooms'[x] \ {c} = rooms[x] \ {c}
             /\ \A r \in (DOMAIN rooms) \ {x} : rooms'[r] = rooms[r]
             /\ client_rooms'[c] = client_rooms[c] \cup {x}
             /\ \A d \in (DOMAIN client_rooms) \ {c} : client_rooms'[d] = client_rooms[d]
             /\ DOMAIN client_rooms' = DOMAIN client_rooms
      ]_vars

\* A connection has just joined a room besides "default" and is a member of
\* both, while the other connection is a member of "default" only.
C12_Witness ==
    /\ step.seg = "recv" /\ step.op = "joinRoom" /\ step.arg \in RoomNames
    /\ step.ev = JoinedEv(step.by, step.arg)
    /\ step.by \in rooms[Default] /\ step.by \in rooms[step.arg]
    /\ client_rooms[step.by] = {Default, step.arg}
    /\ \E d \in Conn \ {step.by} :
          /\ InSession(d)
          /\ d \in rooms[Default] /\ d \notin rooms[step.arg]
          /\ client_rooms[d] = {Default}

\* --------------------------------------------------------------------- C13
\* C13: a message broadcast goes to the members the room had when sendMessage
\* was handled: a connection that joins, leaves or disconnects from the room
\* while the sends are in progress does not abort the broadcast (its loop does
\* not raise), every event of the broadcast goes to a member of that snapshot,
\* and a loop that ends without an exception has sent to all of them.
C13_SnapshotDelivery ==
    [][\A c \in Conn :
          (handler[c].pc = "msg" /\ step'.by = c) =>
             /\ step'.exc # "RuntimeError"
             /\ step'.ev.action = "message" => step'.ev.to \in handler[c].snap
             /\ (handler'[c].pc # "msg" /\ step'.exc = "") =>
                   handler[c].seen = handler[c].snap
      ]_vars

\* --------------------------------------------------------------------- C14
\* C14: of two message broadcasts to one room that two senders started in some
\* order, every connection that gets both messages gets them in that order: a
\* broadcast never sends its message to a member that already has the message
\* of a broadcast that started later.
C14_BroadcastOrder ==
    [][\A c \in Conn :
          (handler[c].pc = "msg" /\ step'.by = c /\ step'.ev.action = "message") =>
             step'.ev.to \notin handler[c].over
      ]_vars

\* --------------------------------------------------------------------- C15
\* C15: a send of a message broadcast that never completes does not keep the
\* message from the other members of the room.  A handler that waits in such
\* a send takes no further step, so the statement is: whenever a handler waits
\* in a send of its message loop that does not return, every other member of
\* the snapshot with an open connection has been sent the message.
C15_StalledSendIsolated ==
    \A c \in Conn :
        (handler[c].pc = "msg" /\ handler[c].stuck) =>
            \A m \in handler[c].snap :
                transport[m] = "open" => m \in handler[c].seen

\* --------------------------------------------------------------------- C16
\* C16: the cleanup of a connection completes: once its handler has ended, the
\* connection is in no room, has no client_rooms entry and is not in
\* connected_clients.
C16_CleanupCompletes ==
    \A c \in Conn :
        handler[c].pc \in {"done", "dead"} =>
            /\ c \notin connected_clients
            /\ c \notin DOMAIN client_rooms
            /\ \A r \in DOMAIN rooms : c \notin rooms[r]

\* --------------------------------------------------------------------- C17
\* C17: for every registered connection c and every room r, c is a member of
\* rooms[r] exactly if r is in client_rooms[c], and client_rooms[c] names
\* existing rooms only (here: in the states in which no deleteRoom is suspended
\* between the migration of two members, where the two sides differ until the
\* room is deleted).
C17_MembershipAgrees ==
    (\A d \in Conn : handler[d].pc # "del") =>
        \A c \in connected_clients :
            /\ \A r \in DOMAIN rooms : c \in rooms[r] <=> r \in DictGet(client_rooms, c)
            /\ DictGet(client_rooms, c) \subseteq DOMAIN rooms

\* --------------------------------------------------------------------- C18
\* C18: joinRoom, deleteRoom and sendMessage of a connected client that name a
\* room which does not exist send one error event, to the requester (the one
\* event of the segment), leave rooms, memberships and usernames as they are,
\* and the requester's session goes on with the next frame.
C18_RoomNotFound ==
    [][\A c \in Conn : \A x \in RoomNames :
          (/\ x \notin DOMAIN rooms
           /\ transport[c] = "open"
           /\ \/ Handles(c, "joinRoom", x)
              \/ Handles(c, "deleteRoom", x)
              \/ /\ step'.by = c /\ step'.op = "sendMessage"
                 /\ \E msg \in Messages : RecvSendMessage(c, x, msg)) =>
             /\ step'.ev.action = "error" /\ step'.ev.to = c
             /\ step'.exc = ""
             /\ handler'[c].pc = "recv"
             /\ UNCHANGED <<rooms, client_rooms, users, connected_clients>>
      ]_vars

\* sendMessage to a room that does not exist was answered with room_not_found
\* while the other connection was in its session.
C18_Witness ==
    /\ step.seg = "recv" /\ step.op = "sendMessage" /\ step.arg \in RoomNames
    /\ step.arg \notin DOMAIN rooms
    /\ step.ev = ErrorEv(step.by, "room_not_found")
    /\ handler[step.by].pc = "recv"
    /\ \E d \in Conn \ {step.by} : InSession(d) /\ transport[d] = "open"

\* --------------------------------------------------------------------- C19
\* C19: leaveRoom(R) of a connected client c for a room R other than
\* "default" is answered with a left event only when R exists and c is a
\* member of it; when R does not exist the answer is an error event
\* (RoomNotFound), when c is no member of R an error event (NotAMember), and
\* in these two cases no membership changes.
C19_LeaveOutcomes ==
    [][\A c \in Conn : \A x \in RoomNames :
          (Handles(c, "leaveRoom", x) /\ transport[c] = "open") =>
             IF x \in DOMAIN rooms /\ c \in rooms[x]
             THEN step'.ev = LeftEv(c, x)
             ELSE /\ step'.ev.action = "error" /\ step'.ev.to = c
                  /\ UNCHANGED <<rooms, client_rooms>>
      ]_vars

\* --------------------------------------------------------------------- C20
\* C20: every roomsList event lists each room that exists when the event is
\* built, and no other, with the size of its member set at that moment.
C20_RoomsListExact ==
    [][step'.ev.action = "roomsList" =>
          /\ \A r \in DOMAIN rooms' : <<r, Cardinality(rooms'[r])>> \in step'.ev.rooms
          /\ \A p \in step'.ev.rooms :
                p[1] \in DOMAIN rooms' /\ p[2] = Cardinality(rooms'[p[1]])
      ]_vars

\* A roomsList event of an occupancy broadcast was sent while the handler of
\* the other connection was suspended in its own broadcast, after a room was
\* joined: the event lists two rooms, one of them with a single member.
C20_Witness ==
    /\ step.ev.action = "roomsList"
    /\ step.seg = "resume"
    /\ \E d \in Conn \ {step.by} : handler[d].pc \in {"bcast", "bcastStart", "del"}
    /\ \E r \in RoomNames : <<r, 1>> \in step.ev.rooms
    /\ <<Default, 2>> \in step.ev.rooms

\* --------------------------------------------------------------------- C21
\* No action, broadcast or cleanup is in progress: every handler waits for a
\* frame of a connection that is open, or has not started, or has ended.
Quiescent ==
    \A c \in Conn :
        /\ handler[c].pc \in {"new", "recv", "done", "dead"}
        /\ handler[c].pc = "recv" => transport[c] = "open"

\* C21: once no action or broadcast is in progress, the last roomsList event
\* every connected client has received equals the occupancy of the server.
\* Stated on a step: when the event of the step before was a roomsList event
\* to d, and this step sends nothing to d and leaves the server quiescent
\* with d connected, that event (the last one d has) is the occupancy now.
C21_CountsSynchronized ==
    [][\A d \in Conn :
          (/\ step.ev.action = "roomsList" /\ step.ev.to = d
           /\ step'.ev.to # d
           /\ Quiescent'
           /\ handler'[d].pc = "recv") =>
             step.ev.rooms = get_rooms_with_counts(rooms')
      ]_vars

\* --------------------------------------------------------------------- C22
\* The occupancy broadcast that the action op of c started ends in this step:
\* its loop is left, or its first send already raises.
BroadcastEnds(c, op) ==
    /\ step'.by = c /\ step'.op = op
    /\ handler'[c].pc \notin {"bcastStart", "bcast"}
    /\ \/ handler[c].pc \in {"bcastStart", "bcast"} /\ handler[c].op = op
       \/ handler[c].pc = "recv" /\ step'.seg = "recv" /\ step'.exc # ""
\* The connections the broadcast of c has sent a roomsList event to.
BroadcastReached(c) == IF handler[c].pc = "bcast" THEN handler[c].seen ELSE {}

\* C22: createRoom sends the occupancy to all connected clients exactly if it
\* made the room: a createRoom for an existing name sends no event; every
\* roomsList event of the broadcast of a createRoom with a new name lists the
\* new room with count 0, and the broadcast has, when it ends, sent one to
\* every connected client (whose connection is open).
C22_CreateRoomBroadcast ==
    [][\A c \in Conn : \A x \in RoomNames :
          /\ (Handles(c, "createRoom", x) /\ x \in DOMAIN rooms) =>
                step'.ev.action = "none"
          /\ (/\ step'.by = c /\ step'.op = "createRoom" /\ step'.arg = x
              /\ step'.exc = "" /\ step'.ev.action = "roomsList") =>
                <<x, 0>> \in step'.ev.rooms
          /\ (BroadcastEnds(c, "createRoom") /\ step'.arg = x
                /\ (handler[c].pc = "recv" => x \notin DOMAIN rooms)) =>
                \A d \in connected_clients :
                    transport'[d] = "open" => d \in BroadcastReached(c)
      ]_vars

\* --------------------------------------------------------------------- C23
\* This step handles a joinRoom of c for an existing room, or a leaveRoom of c
\* for a room c is a member of.
JoinOrLeave(c, x) ==
    \/ Handles(c, "joinRoom", x) /\ x \in DOMAIN rooms
    \/ Handles(c, "leaveRoom", x) /\ x \in DOMAIN rooms /\ c \in rooms[x]

\* C23: a successful joinRoom (leaveRoom) of a connected client sends a joined
\* (left) event with the room name to the requester, and to no one else, and
\* then the occupancy to every connected client: its broadcast has, when it
\* ends, sent a roomsList event to every connected client (whose connection
\* is open).
C23_JoinLeaveEvents ==
    [][\A c \in Conn :
          /\ \A x \in RoomNames :
                (JoinOrLeave(c, x) /\ transport[c] = "open") =>
                   /\ step'.ev = (IF step'.op = "joinRoom" THEN JoinedEv(c, x)
                                                           ELSE LeftEv(c, x))
                   /\ handler'[c].pc = "bcastStart"
          /\ (step'.by = c /\ step'.ev.action = "joined") => step'.ev.to = c
          /\ (step'.by = c /\ step'.ev.action = "left" /\ step'.op = "leaveRoom") =>
                step'.ev.to = c
          /\ \A op \in {"joinRoom", "leaveRoom"} :
                (BroadcastEnds(c, op) /\ handler[c].pc # "recv") =>
                   \A d \in connected_clients :
                       transport'[d] = "open" => d \in BroadcastReached(c)
      ]_vars

\* --------------------------------------------------------------------- C24
\* C24: an accepted identify or rename sets the username of the sender; every
\* message event of a broadcast carries, as from, the username the sender had
\* when its sendMessage was handled, and the room and the message of that
\* action: the same for every recipient of the broadcast.
C24_MessageFrom ==
    [][\A c \in Conn :
          /\ \A name \in Usernames :
                (/\ step'.by = c /\ step'.op \in {"identify", "rename"}
                 /\ RecvIdentify(c, name) \/ RecvRename(c, name)) =>
                   users'[c] = name
          /\ \A x \in RoomArgs :
                (Handles(c, "sendMessage", x) /\ step'.ev.action = "message") =>
                   /\ step'.ev.from = users[c]
                   /\ step'.ev.room = x
                   /\ step'.ev.message \in Messages
                   /\ handler'[c].pc = "msg" =>
                         /\ handler'[c].from = users[c]
                         /\ handler'[c].room = x
                         /\ handler'[c].msg = step'.ev.message
          /\ (handler[c].pc = "msg" /\ step'.by = c /\ step'.ev.action = "message") =>
                /\ step'.ev = MessageEv(step'.ev.to, handler[c].from, handler[c].room,
                                        handler[c].msg)
                /\ handler'[c].pc = "msg" =>
                      /\ handler'[c].from = handler[c].from
                      /\ handler'[c].room = handler[c].room
                      /\ handler'[c].msg = handler[c].msg
      ]_vars

\* The broadcast of a sender that identified itself as alice has sent its
\* message to the sender and now sends it to the other member of the room:
\* from alice, with the room and the message of the action.
C24_Witness ==
    /\ step.seg = "resume" /\ step.op = "sendMessage"
    /\ step.ev.action = "message"
    /\ step.ev.from = "alice" /\ users[step.by] = "alice"
    /\ step.ev.room = step.arg /\ step.ev.message = "hi"
    /\ step.ev.to # step.by
    /\ handler[step.by].pc = "msg"
    /\ handler[step.by].seen = Conn

\* --------------------------------------------------------------------- C25
\* This step belongs to the handling of a sendMessage of c: the segment that
\* receives it or one that resumes its loop.
InSendMessage(c) ==
    /\ step'.by = c /\ step'.op = "sendMessage"
    /\ \/ CanRecv(c) /\ step'.seg = "recv"
       \/ handler[c].pc = "msg" /\ step'.seg = "resume"

\* C25: handling a sendMessage of a connected client, accepted, ignored as
\* empty or rejected for an unknown room, changes none of rooms, client_rooms,
\* users and connected_clients.
C25_SendMessageFrame ==
    [][\A c \in Conn :
          (InSendMessage(c) /\ transport[c] = "open") =>
             UNCHANGED <<rooms, client_rooms, users, connected_clients>>
      ]_vars

\* --------------------------------------------------------------------- C27
\* C27: once the cleanup of a connection has run, users has no entry for it,
\* and when every cleanup that started has finished the connections with a
\* username are the registered ones.
C27_UsernameRemoved ==
    /\ \A c \in Conn : handler[c].pc = "done" => c \notin DOMAIN users
    /\ (\A c \in Conn : handler[c].pc \in {"new", "recv", "done"}) =>
          DOMAIN users = connected_clients

\* --------------------------------------------------------------------- C29
\* C29: an action with an unknown name sends no event, leaves rooms,
\* client_rooms, users and connected_clients as they are, and the handler goes
\* on with the next frame.
C29_UnknownIgnored ==
    [][\A c \in Conn :
          Handles(c, "unknown", "") =>
             /\ step'.ev = NoEv
             /\ step'.exc = ""
             /\ handler'[c].pc = "recv"
             /\ UNCHANGED <<rooms, client_rooms, users, connected_clients>>
      ]_vars

\* An unknown action was ignored while the other connection was a member of a
\* room besides "default" and in its session.
C29_Witness ==
    /\ step.seg = "recv" /\ step.op = "unknown"
    /\ handler[step.by].pc = "recv" /\ transport[step.by] = "open"
    /\ \E d \in Conn \ {step.by} : \E r \in RoomNames :
          InSession(d) /\ r \in DOMAIN rooms /\ d \in rooms[r]

\* --------------------------------------------------------------------- C30
\* C30: deleteRoom(R) migrates and notifies before it destroys: at the step
\* that removes R from rooms, every member R has (a connection that joined
\* during the deletion included; here: every member that is in its session
\* with an open connection) is a member of "default" and has been sent the
\* left event for R by the handler that deletes.
C30_MigrateBeforeDestroy ==
    [][\A x \in RoomNames :
          (x \in DOMAIN rooms /\ x \notin DOMAIN rooms') =>
             \A m \in rooms[x] :
                (InSession(m) /\ transport[m] = "open") =>
                   /\ m \in handler[step'.by].seen
                   /\ m \in rooms[Default]
                   /\ x \notin DictGet(client_rooms, m)
      ]_vars

\* --------------------------------------------------------------------- C28
\* This step handles a frame of c that lacks a required field: createRoom or
\* leaveRoom without room, sendMessage without room or without message,
\* identify without username, rename without newUsername.
MissingField(c) ==
    \/ Handles(c, "createRoom", NoRoom)
    \/ Handles(c, "leaveRoom", NoRoom)
    \/ Handles(c, "sendMessage", NoRoom)
    \/ /\ step'.by = c /\ step'.op = "sendMessage"
       /\ \E x \in RoomArgs : RecvSendMessage(c, x, NoMsg)
    \/ /\ step'.by = c /\ step'.op \in {"identify", "rename"}
       /\ RecvIdentify(c, NoName) \/ RecvRename(c, NoName)

\* C28 as stated: a frame that lacks a required field is answered with an
\* error event to its sender, has no effect on the state, and the session goes
\* on.
C28_MissingFieldReported ==
    [][\A c \in Conn :
          (MissingField(c) /\ transport[c] = "open") =>
             /\ step'.ev.action = "error" /\ step'.ev.to = c
             /\ handler'[c].pc = "recv"
             /\ UNCHANGED <<rooms, client_rooms, users, connected_clients>>
      ]_vars

\* C28 as amended: a frame of a connected client that lacks a required field
\* has no effect on the state and the session goes on; leaveRoom without room
\* is answered with the error event no_room_specified to its sender, the
\* others are ignored without any event.
C28_MissingFieldIgnored ==
    [][\A c \in Conn :
          (MissingField(c) /\ transport[c] = "open") =>
             /\ step'.ev = (IF step'.op = "leaveRoom"
                            THEN ErrorEv(c, "no_room_specified") ELSE NoEv)
             /\ step'.exc = ""
             /\ handler'[c].pc = "recv"
             /\ UNCHANGED <<rooms, client_rooms, users, connected_clients>>
      ]_vars

\* A sendMessage without room was ignored, with no event, while the sender and
\* the other connection were in their sessions and a room besides "default"
\* existed.
C28_Witness ==
    /\ step.seg = "recv" /\ step.op = "sendMessage" /\ step.arg = NoRoom
    /\ step.ev = NoEv /\ step.exc = ""
    /\ handler[step.by].pc = "recv" /\ transport[step.by] = "open"
    /\ \E d \in Conn \ {step.by} : InSession(d) /\ transport[d] = "open"
    /\ \E r \in RoomNames : r \in DOMAIN rooms

\* --------------------------------------------------------------------- C26
\* C26: identify and rename with an empty or blank name leave the username as
\* it is; every identify or rename, accepted or not, sends no event, changes
\* no room and no membership, and the session goes on.  (A name is accepted
\* whatever the other usernames are: the code compares it with none.)
C26_SetUsername ==
    [][\A c \in Conn :
          /\ \A name \in {NoName, Blank} :
                (/\ step'.by = c /\ step'.op \in {"identify", "rename"}
                 /\ transport[c] = "open"
                 /\ RecvIdentify(c, name) \/ RecvRename(c, name)) =>
                   users' = users
          /\ (Handles(c, "identify", "") \/ Handles(c, "rename", "")) =>
                /\ step'.ev = NoEv
                /\ handler'[c].pc = "recv"
                /\ UNCHANGED <<rooms, client_rooms, connected_clients>>
      ]_vars

\* --------------------------------------------------------------------- C31
\* C31: quit / exit closes the transport of every registered connection, and
\* when the server process finishes every handler has completed its cleanup:
\* connected_clients is empty and so is the member set of every room.
C31_QuitCleansUp ==
    /\ server.pc \in {"closed", "exited"} =>
          \A c \in connected_clients : transport[c] # "open"
    /\ server.pc = "exited" /\ server.sound =>
          /\ connected_clients = {}
          /\ \A r \in DOMAIN rooms : rooms[r] = {}

\* --------------------------------------------------------------------- C32
\* C32: the members of the rooms are registered connections: a connection
\* whose cleanup has taken it out of the rooms (its handler is in or past its
\* finally block) does not reappear in any room, "default" included, whatever
\* the other handlers do afterwards.
C32_MembersRegistered ==
    [][\A c \in Conn : \A r \in DOMAIN rooms' :
          (InCleanup(c) /\ \A q \in DOMAIN rooms : c \notin rooms[q]) =>
             c \notin rooms'[r]
      ]_vars

\* --------------------------------------------------------------------- C33
\* C33: deleteRoom is all-or-nothing when the notification of a member fails:
\* after the segment in which a send of deleteRoom(x) by an open requester
\* raised, either x is deleted, or x exists and every member of rooms[x] still
\* has x in its client_rooms set (no member is left half migrated).
C33_DeleteAllOrNothing ==
    [][\A c \in Conn : \A x \in RoomNames :
          (/\ step'.by = c /\ step'.op = "deleteRoom" /\ step'.arg = x
           /\ step'.exc = "ConnectionClosed"
           /\ handler[c].pc \in {"recv", "del"} /\ transport[c] = "open"
           /\ x \in DOMAIN rooms
           /\ \A m \in rooms[x] : handler[c].pc = "recv" => x \in DictGet(client_rooms, m)) =>
             (x \in DOMAIN rooms' =>
                 \A m \in rooms'[x] \ {c} : x \in DictGet(client_rooms', m))
      ]_vars

\* --------------------------------------------------------------------- C34
\* C34: a message event for room x is delivered only to a connection that was
\* a member of x when the sendMessage was handled, and only on behalf of a
\* sender that was a member of x then: a sendMessage of a non-member delivers
\* nothing.
MembersWhenHandled(c, x) ==
    IF step'.seg = "recv" THEN rooms[x] ELSE handler[c].snap

C34_MembersOnly ==
    [][step'.ev.action = "message" =>
          LET M == MembersWhenHandled(step'.by, step'.ev.room)
          IN  step'.ev.to \in M /\ step'.by \in M
      ]_vars

\* --------------------------------------------------------------------- C35
\* This step is a segment of the migration of deleteRoom(x), requested by c
\* over an open connection for an existing room x of which c was no member
\* when the request was handled.
DeletesAsOutsider(c, x) ==
    /\ step'.by = c /\ step'.op = "deleteRoom" /\ step'.arg = x
    /\ transport[c] = "open"
    /\ \/ CanRecv(c) /\ step'.seg = "recv" /\ x \in DOMAIN rooms /\ c \notin rooms[x]
       \/ handler[c].pc = "del" /\ step'.seg = "resume" /\ c \notin handler[c].snap

\* C35: deleteRoom(x) of an existing room other than "default" succeeds for a
\* requester that is no member of x: no segment of it fails with x left in
\* place or answers with an error, the left events never go to the requester, and
\* when x is removed from rooms every member of x has been sent the left
\* event and is a member of "default".
C35_OutsiderDeletes ==
    [][\A c \in Conn : \A x \in RoomNames :
          DeletesAsOutsider(c, x) =>
             /\ step'.exc # "" => x \notin DOMAIN rooms'
             /\ step'.ev.action # "error"
             /\ step'.ev.action = "left" => step'.ev.to # c
             /\ (x \in DOMAIN rooms /\ x \notin DOMAIN rooms') =>
                   \A m \in rooms[x] :
                      m \in handler'[c].snap /\ m \in rooms'[Default]
      ]_vars

\* --------------------------------------------------------------------- C36
\* The handler of c (server.py) is in its try body.
SingleInSession(c) == handler[c].pc \in {"recv", "bcast", "del", "msg"}

\* C36 (server.py): every connected client is a member of exactly one room,
\* that room is a key of rooms, and it is both client_rooms[client] and the
\* current_room of the client's handler (here: in the states in which no
\* deleteRoom is suspended between the migration of two members).
C36_OneRoomEach ==
    (\A d \in Conn : handler[d].pc # "del") =>
        \A c \in connected_clients :
            SingleInSession(c) =>
                /\ c \in DOMAIN client_rooms
                /\ client_rooms[c] \in DOMAIN rooms
                /\ {r \in DOMAIN rooms : c \in rooms[r]} = {client_rooms[c]}
                /\ handler[c].current_room = client_rooms[c]

\* --------------------------------------------------------------------- C37
\* C37 (server.py): the left event of leaveRoom names the room that was left:
\* for a connection in a room other than "default" it names that room, and
\* it never names a room of which the connection is a member after the
\* action.
C37_LeftNamesRoom ==
    [][\A c \in Conn :
          (/\ CanRecv(c) /\ transport[c] = "open"
           /\ step'.by = c /\ step'.seg = "recv" /\ step'.op = "leaveRoom"
           /\ step'.ev.action = "left") =>
             /\ handler[c].current_room # Default =>
                   step'.ev.room = handler[c].current_room
             /\ step'.ev.room \in DOMAIN rooms' => c \notin rooms'[step'.ev.room]
      ]_vars

\* --------------------------------------------------------------------- C38
\* C38: the client program mirrors the server's membership: whenever it is
\* connected over an open connection that the server holds, and every event sent to it has
\* been processed by poll_incoming, joined_rooms is the set of rooms the
\* server holds for its connection.
C38_ClientMirrors ==
    (/\ client.connected /\ transport[client.ws] = "open"
     /\ client.in_queue = <<>>
     /\ client.ws \in DOMAIN client_rooms) =>
        client.joined_rooms = client_rooms[client.ws]

====
